---- MODULE Spec2Model ----
(***************************************************************************)
(* Model of src/assembler.py: the two-stage assembler of the UVM.          *)
(*   stage 1  parse_line / assemble_to_pp : text -> intermediate records   *)
(*   stage 2  generate_machine_code       : record -> little-endian bytes  *)
(*   main                                 : drives both, writes the file   *)
(*                                                                         *)
(* Text is modelled as a sequence of tokens.  A token is one whitespace    *)
(* character, one maximal run of decimal digits, one punctuation or letter  *)
(* symbol of the operand grammar, or one word.  Python integers are        *)
(* unbounded; a machine word is therefore modelled as the set of positions *)
(* of its one-bits, so that shifts and ORs never lose bits.                *)
(***************************************************************************)
EXTENDS Integers, Sequences, FiniteSets, TLC

(***************************************************************************)
(* Bounds of the model.                                                    *)
(***************************************************************************)
\* longest source file (in lines) drawn over the whole line vocabulary
MaxLines == 3
\* how many values next to each edge of a field's range are sampled
Edge == 1
\* how many whitespace characters are inserted into an operand text
MaxWs == 2

(***************************************************************************)
(* Tokens.                                                                 *)
(***************************************************************************)
WS == [k |-> "ws", s |-> " ", d |-> <<>>]
Sym(s) == [k |-> "sym", s |-> s, d |-> <<>>]
Word(s) == [k |-> "word", s |-> s, d |-> <<>>]
Num(ds) == [k |-> "num", s |-> "", d |-> ds]

\* int(): the value of a run of decimal digits, most significant first
RECURSIVE int(_)
int(ds) ==
  IF ds = <<>> THEN 0
  ELSE 10 * int(SubSeq(ds, 1, Len(ds) - 1)) + ds[Len(ds)]

\* str.upper() on the words of the vocabulary
upper(s) ==
  CASE s = "ldc" -> "LDC"
    [] s = "ldm" -> "LDM"
    [] s = "stm" -> "STM"
    [] s = "bin_op" -> "BIN_OP"
    [] s = "foo" -> "FOO"
    [] OTHER -> s

(***************************************************************************)
(* COMMAND_SPEC: opcode (A), operand order, word size and the test vector  *)
(* of each mnemonic.                                                       *)
(***************************************************************************)
Mnemonics == {"LDC", "LDM", "STM", "BIN_OP"}

COMMAND_SPEC ==
  [m \in Mnemonics |->
    CASE m = "LDC" ->
           [A |-> 4, fields |-> <<"B", "C">>, byte_size |-> 5,
            test_fields |-> [B |-> 91, C |-> 651],
            test_bytes |-> <<228, 93, 20, 0, 0>>]
      [] m = "LDM" ->
           [A |-> 14, fields |-> <<"C", "B">>, byte_size |-> 4,
            test_fields |-> [B |-> 820, C |-> 53],
            test_bytes |-> <<78, 51, 168, 1>>]
      [] m = "STM" ->
           [A |-> 10, fields |-> <<"B", "C">>, byte_size |-> 3,
            test_fields |-> [B |-> 5, C |-> 8],
            test_bytes |-> <<90, 152, 2>>]
      [] m = "BIN_OP" ->
           [A |-> 5, fields |-> <<"D", "B", "C">>, byte_size |-> 4,
            test_fields |-> [B |-> 85, C |-> 310, D |-> 6],
            test_bytes |-> <<85, 181, 169, 7>>]]

\* The bit ranges documented next to each entry of COMMAND_SPEC:
\* field -> <<first bit, number of bits>>.
Layout ==
  [m \in Mnemonics |->
    CASE m = "LDC" -> [B |-> <<4, 7>>, C |-> <<11, 26>>]
      [] m = "LDM" -> [B |-> <<4, 15>>, C |-> <<19, 7>>]
      [] m = "STM" -> [B |-> <<4, 7>>, C |-> <<11, 7>>]
      [] m = "BIN_OP" -> [B |-> <<4, 7>>, C |-> <<11, 10>>, D |-> <<21, 7>>]]

(***************************************************************************)
(* Unbounded integers as sets of one-bit positions.                        *)
(***************************************************************************)
\* the one-bits of a non-negative value below 2^31
Bits(v) == {b \in 0..30 : (v \div (2 ^ b)) % 2 = 1}

\* x << n
ShiftLeft(v, n) == {b + n : b \in Bits(v)}

RECURSIVE SumPow(_)
SumPow(S) ==
  IF S = {} THEN 0
  ELSE LET b == CHOOSE x \in S : TRUE IN (2 ^ b) + SumPow(S \ {b})

OverflowError == <<-1>>

\* int.to_bytes(size, byteorder='little'): OverflowError when the word
\* needs more than size bytes, else exactly size bytes, low byte first
to_bytes(word, size) ==
  IF \E b \in word : b >= 8 * size THEN OverflowError
  ELSE [j \in 1..size |->
          SumPow({b \in 0..7 : (8 * (j - 1) + b) \in word})]

\* the word with bits 0-2 of the B operand shifted one place too low
generate_machine_code_low(pp_entry) ==
  to_bytes(Bits(pp_entry.A) \cup ShiftLeft(pp_entry.f.B, 3)
             \cup ShiftLeft(pp_entry.f.C, 11),
           pp_entry.byte_size)

\* the LDM register field placed at bit 18 instead of bit 19
generate_machine_code_overlap(pp_entry) ==
  LET m == pp_entry.mnemonic
      w0 == Bits(pp_entry.A)
      w == CASE m = "LDC" ->
                  w0 \cup ShiftLeft(pp_entry.f.B, 4) \cup ShiftLeft(pp_entry.f.C, 11)
             [] m = "LDM" ->
                  w0 \cup ShiftLeft(pp_entry.f.B, 4) \cup ShiftLeft(pp_entry.f.C, 18)
             [] m = "STM" ->
                  w0 \cup ShiftLeft(pp_entry.f.B, 4) \cup ShiftLeft(pp_entry.f.C, 11)
             [] m = "BIN_OP" ->
                  w0 \cup ShiftLeft(pp_entry.f.B, 4) \cup ShiftLeft(pp_entry.f.C, 11)
                     \cup ShiftLeft(pp_entry.f.D, 20)
             [] OTHER -> w0
  IN to_bytes(w, pp_entry.byte_size)

\* generate_machine_code: OR the shifted operands into the opcode and
\* serialise; bitwise OR of two words is the union of their one-bits
generate_machine_code(pp_entry) ==
  LET m == pp_entry.mnemonic
      w0 == Bits(pp_entry.A)
      w == CASE m = "LDC" ->
                  w0 \cup ShiftLeft(pp_entry.f.B, 4) \cup ShiftLeft(pp_entry.f.C, 11)
             [] m = "LDM" ->
                  w0 \cup ShiftLeft(pp_entry.f.B, 4) \cup ShiftLeft(pp_entry.f.C, 19)
             [] m = "STM" ->
                  w0 \cup ShiftLeft(pp_entry.f.B, 4) \cup ShiftLeft(pp_entry.f.C, 11)
             [] m = "BIN_OP" ->
                  w0 \cup ShiftLeft(pp_entry.f.B, 4) \cup ShiftLeft(pp_entry.f.C, 11)
                     \cup ShiftLeft(pp_entry.f.D, 21)
             [] OTHER -> w0
  IN to_bytes(w, pp_entry.byte_size)

(***************************************************************************)
(* Stage 1: parse_line.                                                    *)
(***************************************************************************)
\* str.strip(): drop the leading and the trailing whitespace
RECURSIVE lstrip(_)
lstrip(t) == IF t # <<>> /\ Head(t).k = "ws" THEN lstrip(Tail(t)) ELSE t

RECURSIVE rstrip(_)
rstrip(t) ==
  IF t # <<>> /\ t[Len(t)].k = "ws" THEN rstrip(SubSeq(t, 1, Len(t) - 1)) ELSE t

strip(t) == rstrip(lstrip(t))

\* index of the first whitespace token of t, Len(t) + 1 when there is none
RECURSIVE FirstWs(_, _)
FirstWs(t, n) ==
  IF n > Len(t) THEN n
  ELSE IF t[n].k = "ws" THEN n ELSE FirstWs(t, n + 1)

\* str.split(maxsplit=1) of stripped, non-empty text: the first
\* whitespace-delimited piece, then the rest after the whitespace run
split1(t) ==
  LET n == FirstWs(t, 1) IN
    IF n > Len(t) THEN <<t>>
    ELSE <<SubSeq(t, 1, n - 1), lstrip(SubSeq(t, n, Len(t)))>>

\* The operand patterns without any \s*: whitespace is nowhere accepted.
RegexNoSpace(m) ==
  CASE m = "LDC" -> <<"R", "[", "\\d+", "]", "=", "\\d+">>
    [] m = "LDM" -> <<"R", "[", "\\d+", "]", "=", "M", "[", "\\d+", "]">>
    [] m = "STM" ->
         <<"M", "[", "R", "[", "\\d+", "]", "]", "=", "R", "[", "\\d+", "]">>
    [] m = "BIN_OP" ->
         <<"R", "[", "\\d+", "]", ",", "R", "[", "\\d+", "]", ",", "\\d+">>

\* The operand regular expression of each mnemonic, element by element:
\* a literal character, "\\d+" (a captured run of digits) or "\\s*".
Regex(m) ==
  CASE m = "LDC" -> <<"R", "[", "\\d+", "]", "\\s*", "=", "\\s*", "\\d+">>
    [] m = "LDM" ->
         <<"R", "[", "\\d+", "]", "\\s*", "=", "\\s*", "M", "[", "\\d+", "]">>
    [] m = "STM" ->
         <<"M", "[", "R", "[", "\\d+", "]", "]", "\\s*", "=", "\\s*",
           "R", "[", "\\d+", "]">>
    [] m = "BIN_OP" ->
         <<"R", "[", "\\d+", "]", ",", "\\s*", "R", "[", "\\d+", "]", ",",
           "\\s*", "\\d+">>

\* re.fullmatch(pat, t): the captured groups when the whole of t matches
RECURSIVE fullmatch(_, _, _)
fullmatch(pat, t, groups) ==
  IF pat = <<>>
  THEN [matched |-> t = <<>>, groups |-> groups]
  ELSE LET p == Head(pat) IN
    IF p = "\\s*"
    THEN IF t # <<>> /\ Head(t).k = "ws"
         THEN fullmatch(pat, Tail(t), groups)
         ELSE fullmatch(Tail(pat), t, groups)
    ELSE IF t = <<>> THEN [matched |-> FALSE, groups |-> groups]
    ELSE IF p = "\\d+"
    THEN IF Head(t).k = "num"
         THEN fullmatch(Tail(pat), Tail(t), Append(groups, int(Head(t).d)))
         ELSE [matched |-> FALSE, groups |-> groups]
    ELSE IF Head(t).k = "sym" /\ Head(t).s = p
         THEN fullmatch(Tail(pat), Tail(t), groups)
         ELSE [matched |-> FALSE, groups |-> groups]

\* results of parse_line
None == [tag |-> "None"]
ValueError(line_num) == [tag |-> "ValueError", line_num |-> line_num]
SyntaxError(line_num, m) ==
  [tag |-> "SyntaxError", line_num |-> line_num, mnemonic |-> m]
Entry(m, f) ==
  [tag |-> "entry", mnemonic |-> m, A |-> COMMAND_SPEC[m].A,
   byte_size |-> COMMAND_SPEC[m].byte_size, f |-> f]

\* the field bindings of the captured groups, in the order of the operands
Bind(m, g) ==
  CASE m = "LDC" -> [B |-> g[1], C |-> g[2]]
    [] m = "LDM" -> [C |-> g[1], B |-> g[2]]
    [] m = "STM" -> [B |-> g[1], C |-> g[2]]
    [] m = "BIN_OP" -> [D |-> g[1], B |-> g[2], C |-> g[3]]

\* what follows the skip test of parse_line, on the text it is left with
parse_rest(t, line_num) ==
  LET parts == split1(t)
      first == parts[1]
      known == Len(first) = 1 /\ first[1].k = "word"
                 /\ upper(first[1].s) \in Mnemonics
      operand_string == IF Len(parts) > 1 THEN parts[2] ELSE <<>>
  IN IF ~known THEN ValueError(line_num)
     ELSE LET m == upper(first[1].s)
              match == fullmatch(Regex(m), operand_string, <<>>)
          IN IF ~match.matched THEN SyntaxError(line_num, m)
             ELSE Entry(m, Bind(m, match.groups))

\* parse_line with rstrip() in place of strip(): leading whitespace stays
\* in front of the comment test (split() still ignores it)
parse_line_rstrip(line, line_num) ==
  LET t == rstrip(line) IN
    IF t = <<>> \/ (Head(t).k = "sym" /\ Head(t).s = "#")
    THEN None
    ELSE parse_rest(lstrip(t), line_num)

\* parse_line: None for a skipped line, the record of an instruction, or
\* the exception it raises
parse_line(line, line_num) ==
  LET t == strip(line) IN
    IF t = <<>> \/ (Head(t).k = "sym" /\ Head(t).s = "#")
    THEN None
    ELSE parse_rest(t, line_num)

(***************************************************************************)
(* The source files.                                                       *)
(***************************************************************************)
R == Sym("R")
M == Sym("M")
LB == Sym("[")
RB == Sym("]")
EQ == Sym("=")
COMMA == Sym(",")

\* LDC R[91] = 651
LineLDC ==
  <<Word("LDC"), WS, R, LB, Num(<<9, 1>>), RB, WS, EQ, WS, Num(<<6, 5, 1>>)>>
\* LDM R[53] = M[820]
LineLDM ==
  <<Word("LDM"), WS, R, LB, Num(<<5, 3>>), RB, WS, EQ, WS,
    M, LB, Num(<<8, 2, 0>>), RB>>
\* STM M[R[5]] = R[8]
LineSTM ==
  <<Word("STM"), WS, M, LB, R, LB, Num(<<5>>), RB, RB, WS, EQ, WS,
    R, LB, Num(<<8>>), RB>>
\* BIN_OP R[6], R[85], 310
LineBIN ==
  <<Word("BIN_OP"), WS, R, LB, Num(<<6>>), RB, COMMA, WS,
    R, LB, Num(<<8, 5>>), RB, COMMA, WS, Num(<<3, 1, 0>>)>>
\* a line of whitespace only
LineBlank == <<WS>>
\* an indented comment:  # foo
LineComment == <<WS, Sym("#"), WS, Word("foo")>>
\* foo R[1]=2 : no such mnemonic
LineUnknown == <<Word("foo"), WS, R, LB, Num(<<1>>), RB, EQ, Num(<<2>>)>>
\* ldc R[1] 2 : the '=' is missing
LineSyntax == <<Word("ldc"), WS, R, LB, Num(<<1>>), RB, WS, Num(<<2>>)>>
\* stm M[R[128]]=R[0] : 128 needs 8 bits, the word still fits 3 bytes
LineWide ==
  <<Word("stm"), WS, M, LB, R, LB, Num(<<1, 2, 8>>), RB, RB, EQ,
    R, LB, Num(<<0>>), RB>>
\* STM M[R[0]]=R[8192] : the word needs 25 bits
LineHuge ==
  <<Word("STM"), WS, M, LB, R, LB, Num(<<0>>), RB, RB, EQ,
    R, LB, Num(<<8, 1, 9, 2>>), RB, WS>>

LineVocabulary ==
  {LineLDC, LineLDM, LineSTM, LineBIN, LineBlank, LineComment,
   LineUnknown, LineSyntax, LineWide, LineHuge}

\* the source of the four test instructions, in the order of run_tests
TestProgram == <<LineLDC, LineLDM, LineSTM, LineBIN>>

RECURSIVE SeqsUpTo(_, _)
SeqsUpTo(S, n) ==
  IF n = 0 THEN {<<>>}
  ELSE LET shorter == SeqsUpTo(S, n - 1) IN
    shorter \cup {Append(q, x) : q \in {p \in shorter : Len(p) = n - 1}, x \in S}

Sources == SeqsUpTo(LineVocabulary, MaxLines) \cup {TestProgram}

(***************************************************************************)
(* State.                                                                  *)
(***************************************************************************)
VARIABLES
  src,           \* the lines of the source file
  pc,            \* where main is: "start", "parse", "encode", "count", "exit"
                 \* (or "call_..."/"ret_..." when one function is called alone)
  i,             \* assemble_to_pp: number of the line parsed next
  pp_list,       \* the intermediate representation collected so far
  k,             \* main: index in pp_list of the record encoded next
  machine_code,  \* main: the bytes generated so far
  outfile,       \* the binary output file
  printed,       \* the messages printed so far
  pp_in,         \* generate_machine_code called alone: its argument
  mc_out,        \* ... and what it returned
  op_in,         \* parse_line called alone: how its line was built
  pl_out         \* ... and what it returned

vars ==
  <<src, pc, i, pp_list, k, machine_code, outfile, printed,
    pp_in, mc_out, op_in, pl_out>>

mainVars == <<src, pc, i, pp_list, k, machine_code, outfile, printed>>
unitVars == <<pp_in, mc_out, op_in, pl_out>>

NoFile == [exists |-> FALSE, data |-> <<>>]
File(bytes) == [exists |-> TRUE, data |-> bytes]

Msg(kind, line, n) == [kind |-> kind, line |-> line, n |-> n]

InitMain ==
  /\ src \in Sources
  /\ pc = "start"
  /\ i = 1
  /\ pp_list = <<>>
  /\ k = 1
  /\ machine_code = <<>>
  /\ outfile = NoFile
  /\ printed = <<>>

Init ==
  /\ InitMain
  /\ pp_in = <<>> /\ mc_out = <<>> /\ op_in = <<>> /\ pl_out = <<>>

(***************************************************************************)
(* assemble_to_pp.                                                         *)
(***************************************************************************)
\* open(source_path) raises FileNotFoundError: the message, return [], and
\* main returns on the empty list
SourceNotFound ==
  /\ pc = "start"
  /\ printed' = Append(printed, Msg("SourceNotFound", 0, 0))
  /\ pc' = "exit"
  /\ UNCHANGED <<src, i, pp_list, k, machine_code, outfile, unitVars>>

\* f.readlines()
ReadSource ==
  /\ pc = "start"
  /\ pc' = "parse"
  /\ i' = 1
  /\ pp_list' = <<>>
  /\ UNCHANGED <<src, k, machine_code, outfile, printed, unitVars>>

\* one turn of the loop that carries on after an error
ParseStep_continue ==
  /\ pc = "parse"
  /\ i <= Len(src)
  /\ LET r == parse_line(src[i], i) IN
       /\ pp_list' = IF r.tag = "entry" THEN Append(pp_list, r) ELSE pp_list
       /\ printed' = IF r.tag \in {"ValueError", "SyntaxError"}
                     THEN Append(printed, Msg(r.tag, i, 0))
                     ELSE printed
  /\ i' = i + 1
  /\ UNCHANGED <<src, pc, k, machine_code, outfile, unitVars>>

\* one turn of "for i, line in enumerate(lines, 1)": the record is
\* appended, the line is skipped, or the error is printed with the line
\* number and [] is returned, on which main returns
ParseStep ==
  /\ pc = "parse"
  /\ i <= Len(src)
  /\ LET r == parse_line(src[i], i) IN
       CASE r.tag = "entry" ->
              /\ pp_list' = Append(pp_list, r)
              /\ i' = i + 1
              /\ UNCHANGED <<pc, printed>>
         [] r.tag = "None" ->
              /\ i' = i + 1
              /\ UNCHANGED <<pp_list, pc, printed>>
         [] OTHER ->
              /\ printed' = Append(printed, Msg(r.tag, r.line_num, 0))
              /\ pp_list' = <<>>
              /\ pc' = "exit"
              /\ UNCHANGED i
  /\ UNCHANGED <<src, k, machine_code, outfile, unitVars>>

\* the loop is over: return the list; main returns if it is empty, else
\* starts stage 2 with machine_code = b''
ParseReturn ==
  /\ pc = "parse"
  /\ i > Len(src)
  /\ IF pp_list = <<>>
     THEN pc' = "exit" /\ UNCHANGED <<k, machine_code>>
     ELSE pc' = "encode" /\ k' = 1 /\ machine_code' = <<>>
  /\ UNCHANGED <<src, i, pp_list, outfile, printed, unitVars>>

(***************************************************************************)
(* main, stage 2 and the output file.                                      *)
(***************************************************************************)
\* one turn of the loop that puts the new word in front of the old ones
EncodeStep_prepend ==
  /\ pc = "encode"
  /\ k <= Len(pp_list)
  /\ LET b == generate_machine_code(pp_list[k]) IN
       IF b = OverflowError
       THEN /\ printed' = Append(printed, Msg("EncodeError", 0, 0))
            /\ pc' = "exit"
            /\ UNCHANGED <<k, machine_code>>
       ELSE /\ machine_code' = b \o machine_code
            /\ k' = k + 1
            /\ UNCHANGED <<pc, printed>>
  /\ UNCHANGED <<src, i, pp_list, outfile, unitVars>>

\* one turn of "for pp_entry in pp_list": machine_code += the word, or
\* the exception is printed (without a line number) and main returns
EncodeStep ==
  /\ pc = "encode"
  /\ k <= Len(pp_list)
  /\ LET b == generate_machine_code(pp_list[k]) IN
       IF b = OverflowError
       THEN /\ printed' = Append(printed, Msg("EncodeError", 0, 0))
            /\ pc' = "exit"
            /\ UNCHANGED <<k, machine_code>>
       ELSE /\ machine_code' = machine_code \o b
            /\ k' = k + 1
            /\ UNCHANGED <<pc, printed>>
  /\ UNCHANGED <<src, i, pp_list, outfile, unitVars>>

\* open(binary_output, 'wb'); f.write(machine_code); the message
WriteFile ==
  /\ pc = "encode"
  /\ k > Len(pp_list)
  /\ outfile' = File(machine_code)
  /\ printed' = Append(printed, Msg("Written", 0, 0))
  /\ pc' = "count"
  /\ UNCHANGED <<src, i, pp_list, k, machine_code, unitVars>>

\* the same raising IOError: no file, or a file cut short, is left behind;
\* the message, and main returns
WriteFails ==
  /\ pc = "encode"
  /\ k > Len(pp_list)
  /\ \E n \in (-1)..(Len(machine_code) - 1) :
       outfile' = IF n < 0 THEN NoFile ELSE File(SubSeq(machine_code, 1, n))
  /\ printed' = Append(printed, Msg("WriteError", 0, 0))
  /\ pc' = "exit"
  /\ UNCHANGED <<src, i, pp_list, k, machine_code, unitVars>>

\* the number of assembled instructions is printed; run_tests and the
\* closing message only print comparisons of what was computed above
ReportCount ==
  /\ pc = "count"
  /\ printed' = Append(printed, Msg("Count", 0, Len(pp_list)))
  /\ pc' = "exit"
  /\ UNCHANGED <<src, i, pp_list, k, machine_code, outfile, unitVars>>

Next ==
  \/ SourceNotFound
  \/ ReadSource
  \/ ParseStep
  \/ ParseReturn
  \/ EncodeStep
  \/ WriteFile
  \/ WriteFails
  \/ ReportCount

Spec == Init /\ [][Next]_vars

(***************************************************************************)
(* generate_machine_code called alone, as run_tests calls it, on records   *)
(* whose operands lie at the edges of their fields and beyond them.        *)
(***************************************************************************)
\* an operand too big for any word: shifted by 4 it needs 34 bits, by 11, 41
HugeOperand == 2 ^ 29

Samples(m, fld) ==
  LET w == Layout[m][fld][2] IN
    (0..Edge) \cup ((2 ^ w - 1 - Edge)..(2 ^ w + Edge))
      \cup {HugeOperand, COMMAND_SPEC[m].test_fields[fld]}

Records ==
  {Entry(m, [B |-> b, C |-> c]) :
     m \in {"LDC"}, b \in Samples("LDC", "B"), c \in Samples("LDC", "C")}
  \cup {Entry(m, [B |-> b, C |-> c]) :
     m \in {"LDM"}, b \in Samples("LDM", "B"), c \in Samples("LDM", "C")}
  \cup {Entry(m, [B |-> b, C |-> c]) :
     m \in {"STM"}, b \in Samples("STM", "B"), c \in Samples("STM", "C")}
  \cup {Entry(m, [B |-> b, C |-> c, D |-> d]) :
     m \in {"BIN_OP"}, b \in Samples("BIN_OP", "B"),
     c \in Samples("BIN_OP", "C"), d \in Samples("BIN_OP", "D")}

InitCodec ==
  /\ src = <<>> /\ i = 1 /\ pp_list = <<>> /\ k = 1 /\ machine_code = <<>>
  /\ outfile = NoFile /\ printed = <<>>
  /\ pc = "call_generate"
  /\ pp_in \in Records
  /\ mc_out = <<>> /\ op_in = <<>> /\ pl_out = <<>>

CallGenerate ==
  /\ pc = "call_generate"
  /\ mc_out' = generate_machine_code(pp_in)
  /\ pc' = "ret_generate"
  /\ UNCHANGED <<src, i, pp_list, k, machine_code, outfile, printed,
                 pp_in, op_in, pl_out>>

NextCodec == CallGenerate

SpecCodec == InitCodec /\ [][NextCodec]_vars

(***************************************************************************)
(* parse_line called alone on the test instruction of a mnemonic with      *)
(* whitespace put between its operand tokens and a token put behind it.    *)
(***************************************************************************)
\* the operand text of the test instruction of m, without any whitespace
Operands(m) ==
  CASE m = "LDC" -> <<R, LB, Num(<<9, 1>>), RB, EQ, Num(<<6, 5, 1>>)>>
    [] m = "LDM" -> <<R, LB, Num(<<5, 3>>), RB, EQ, M, LB, Num(<<8, 2, 0>>), RB>>
    [] m = "STM" ->
         <<M, LB, R, LB, Num(<<5>>), RB, RB, EQ, R, LB, Num(<<8>>), RB>>
    [] m = "BIN_OP" ->
         <<R, LB, Num(<<6>>), RB, COMMA, R, LB, Num(<<8, 5>>), RB, COMMA,
           Num(<<3, 1, 0>>)>>

\* gap g of a text lies between its tokens g and g + 1
Gaps(m) == 1..(Len(Operands(m)) - 1)

\* the non-decreasing sequences of at most MaxWs gaps: one whitespace
\* character goes into each gap named, two into a gap named twice
GapChoices(m) ==
  {q \in SeqsUpTo(Gaps(m), MaxWs) :
     \A a \in 1..(Len(q) - 1) : q[a] <= q[a + 1]}

Trailers == {<<>>, <<WS, Num(<<7>>)>>, <<RB>>}

RECURSIVE Spaces(_)
Spaces(n) == IF n = 0 THEN <<>> ELSE <<WS>> \o Spaces(n - 1)

RECURSIVE Spread(_, _, _)
Spread(t, gaps, g) ==
  IF g > Len(t) THEN <<>>
  ELSE <<t[g]>> \o Spaces(Cardinality({a \in DOMAIN gaps : gaps[a] = g}))
         \o Spread(t, gaps, g + 1)

\* the line handed to parse_line
LineOf(c) ==
  <<Word(c.m), WS>> \o Spread(Operands(c.m), c.gaps, 1) \o c.trail

InitParse ==
  /\ src = <<>> /\ i = 1 /\ pp_list = <<>> /\ k = 1 /\ machine_code = <<>>
  /\ outfile = NoFile /\ printed = <<>>
  /\ pc = "call_parse"
  /\ \E m \in Mnemonics : \E g \in GapChoices(m) : \E t \in Trailers :
       op_in = [m |-> m, gaps |-> g, trail |-> t]
  /\ pp_in = <<>> /\ mc_out = <<>> /\ pl_out = <<>>

CallParse ==
  /\ pc = "call_parse"
  /\ pl_out' = parse_line(LineOf(op_in), 1)
  /\ pc' = "ret_parse"
  /\ UNCHANGED <<src, i, pp_list, k, machine_code, outfile, printed,
                 pp_in, mc_out, op_in>>

NextParse == CallParse

SpecParse == InitParse /\ [][NextParse]_vars

(***************************************************************************)
(* Vocabulary of the properties.                                           *)
(***************************************************************************)
\* the line is blank after trimming, or its first non-blank character is '#'
IsSkippable(line) ==
  \/ \A a \in DOMAIN line : line[a].k = "ws"
  \/ \E a \in DOMAIN line :
       /\ line[a] = Sym("#")
       /\ \A b \in 1..(a - 1) : line[b].k = "ws"

ParseFails(n) == parse_line(src[n], n).tag \in {"ValueError", "SyntaxError"}

IsInstruction(n) == parse_line(src[n], n).tag = "entry"

EncodeFails(n) ==
  /\ IsInstruction(n)
  /\ generate_machine_code(parse_line(src[n], n)) = OverflowError

\* the source lines on which parsing or encoding fails
FailingLines == {n \in 1..Len(src) : ParseFails(n) \/ EncodeFails(n)}

Kinds == {printed[a].kind : a \in DOMAIN printed}

\* the errors of stage 1 and stage 2 that were reported
Reported ==
  {a \in DOMAIN printed :
     printed[a].kind \in {"ValueError", "SyntaxError", "EncodeError"}}

\* main came to its end having written the file
Succeeded == pc \in {"count", "exit"} /\ "Written" \in Kinds

\* the words of the instructions among the first n lines, in line order
RECURSIVE Image(_)
Image(n) ==
  IF n = 0 THEN <<>>
  ELSE Image(n - 1) \o
         (IF IsInstruction(n)
          THEN generate_machine_code(parse_line(src[n], n)) ELSE <<>>)

\* the byte sizes of the instructions among the first n lines, summed
RECURSIVE SizeSum(_)
SizeSum(n) ==
  IF n = 0 THEN 0
  ELSE SizeSum(n - 1) +
         (IF IsInstruction(n)
          THEN COMMAND_SPEC[parse_line(src[n], n).mnemonic].byte_size ELSE 0)

\* every operand fits the bit width of its field
Fits(e) == \A fld \in DOMAIN e.f : e.f[fld] < 2 ^ Layout[e.mnemonic][fld][2]

\* the one-bits of the word that the bytes hold, low byte first
WordOf(bytes) ==
  {8 * (j - 1) + b : j \in DOMAIN bytes, b \in 0..7} \cap
  {p \in 0..(8 * Len(bytes) - 1) :
     (bytes[(p \div 8) + 1] \div (2 ^ (p % 8))) % 2 = 1}

\* (word >> bitOffset) & ((1 << bitWidth) - 1)
decode(bytes, bitOffset, bitWidth) ==
  SumPow({b \in 0..(bitWidth - 1) : (bitOffset + b) \in WordOf(bytes)})

\* the published vectors
Published ==
  [m \in Mnemonics |->
    CASE m = "LDC" -> <<228, 93, 20, 0, 0>>
      [] m = "LDM" -> <<78, 51, 168, 1>>
      [] m = "STM" -> <<90, 152, 2>>
      [] m = "BIN_OP" -> <<85, 181, 169, 7>>]

PublishedFields ==
  [m \in Mnemonics |->
    CASE m = "LDC" -> [B |-> 91, C |-> 651]
      [] m = "LDM" -> [B |-> 820, C |-> 53]
      [] m = "STM" -> [B |-> 5, C |-> 8]
      [] m = "BIN_OP" -> [D |-> 6, B |-> 85, C |-> 310]]

TestOrder == <<"LDC", "LDM", "STM", "BIN_OP">>

RECURSIVE PublishedImage(_)
PublishedImage(n) ==
  IF n = 0 THEN <<>> ELSE PublishedImage(n - 1) \o Published[TestOrder[n]]

\* parse_line returned the record of the test instruction of op_in
Accepted ==
  /\ pl_out.tag = "entry"
  /\ pl_out.mnemonic = op_in.m
  /\ pl_out.f = PublishedFields[op_in.m]

\* gap g touches the '=' of the text, or follows a ','
Tolerant(m, g) ==
  \/ Operands(m)[g] \in {EQ, COMMA}
  \/ Operands(m)[g + 1] = EQ

(***************************************************************************)
(* C1.  As claimed: the source of the four test instructions is parsed     *)
(* into the published field values, each of its instructions is encoded    *)
(* into the published bytes, and the file written is the four vectors one  *)
(* after the other and nothing else.                                       *)
(***************************************************************************)
C1_TestVectors ==
  src = TestProgram =>
    /\ pc = "encode" =>
         /\ Len(pp_list) = 4
         /\ \A a \in 1..4 :
              /\ pp_list[a].mnemonic = TestOrder[a]
              /\ pp_list[a].f = PublishedFields[TestOrder[a]]
         /\ machine_code = PublishedImage(k - 1)
    /\ Succeeded => outfile = File(PublishedImage(4))

(***************************************************************************)
(* C2.  Round trip: when every operand of a record fits its field,         *)
(* generate_machine_code returns bytes, and extracting each field from     *)
(* them with (word >> bitOffset) & ((1 << bitWidth) - 1) gives the operand *)
(* back.                                                                   *)
(***************************************************************************)
C2_RoundTrip ==
  (pc = "ret_generate" /\ Fits(pp_in)) =>
    /\ mc_out # OverflowError
    /\ \A fld \in DOMAIN pp_in.f :
         decode(mc_out, Layout[pp_in.mnemonic][fld][1],
                Layout[pp_in.mnemonic][fld][2]) = pp_in.f[fld]

C2_Witness ==
  /\ pc = "ret_generate"
  /\ pp_in.mnemonic = "BIN_OP"
  /\ pp_in.f = [B |-> 127, C |-> 1023, D |-> 127]
  /\ mc_out = <<245, 255, 255, 15>>

(***************************************************************************)
(* C3.  As claimed: a record with an operand wider than its field never    *)
(* yields bytes.                                                           *)
(***************************************************************************)
C3_OverflowRejected ==
  (pc = "ret_generate" /\ ~Fits(pp_in)) => mc_out = OverflowError

(***************************************************************************)
(* C4.  Fail-fast without partial output: while any line of the source     *)
(* fails to parse or to encode, the output file does not exist, however    *)
(* many good instructions stand before or after that line; and when the    *)
(* file exists, every line has been parsed and every record encoded.       *)
(***************************************************************************)
C4_NoPartialOutput ==
  /\ FailingLines # {} => outfile = NoFile
  /\ outfile.exists =>
       /\ pc \in {"count", "exit"}
       /\ i = Len(src) + 1
       /\ k = Len(pp_list) + 1
       /\ Len(pp_list) = Cardinality({n \in 1..Len(src) : IsInstruction(n)})

C4_Witness ==
  /\ src = <<LineLDC, LineHuge, LineLDM>>
  /\ pc = "exit"
  /\ machine_code = <<180, 93, 20, 0, 0>>
  /\ outfile = NoFile

(***************************************************************************)
(* C5.  As claimed: a failed assembly reports exactly one error, that of   *)
(* the lowest-numbered line on which parsing or encoding fails, with the   *)
(* number of that line.                                                    *)
(***************************************************************************)
C5_FirstErrorReported ==
  (pc = "exit" /\ FailingLines # {} /\ "SourceNotFound" \notin Kinds) =>
    /\ Cardinality(Reported) = 1
    /\ \A a \in Reported :
         /\ printed[a].line \in FailingLines
         /\ \A n \in FailingLines : printed[a].line <= n

(***************************************************************************)
(* C6.  As claimed: a source without parse error and without encode error, *)
(* of any number of instructions, ends with the complete file written and  *)
(* the instruction count reported (the source being readable and the       *)
(* output writable).                                                       *)
(***************************************************************************)
C6_CleanSourceSucceeds ==
  (/\ pc = "exit"
   /\ FailingLines = {}
   /\ "SourceNotFound" \notin Kinds
   /\ "WriteError" \notin Kinds) =>
    /\ outfile = File(Image(Len(src)))
    /\ "Count" \in Kinds

(***************************************************************************)
(* C7.  The file written by a successful run is the words of the           *)
(* instructions of the source one after the other in line order and        *)
(* nothing else: every word has the byte size of its mnemonic and the      *)
(* length of the file is the sum of these sizes.                           *)
(***************************************************************************)
C7_FlatImage ==
  Succeeded =>
    /\ outfile = File(Image(Len(src)))
    /\ Len(outfile.data) = SizeSum(Len(src))
    /\ \A a \in DOMAIN pp_list :
         Len(generate_machine_code(pp_list[a]))
           = COMMAND_SPEC[pp_list[a].mnemonic].byte_size

C7_Witness ==
  /\ src = <<LineSTM, LineComment, LineLDC>>
  /\ pc = "exit"
  /\ Succeeded
  /\ outfile.data = <<90, 64, 0, 180, 93, 20, 0, 0>>

(***************************************************************************)
(* C8.  Opcode recoverability: whenever generate_machine_code returns      *)
(* bytes, fitting operands or not, the low four bits of the first byte are *)
(* the opcode of the mnemonic.                                             *)
(***************************************************************************)
C8_OpcodeRecoverable ==
  (pc = "ret_generate" /\ mc_out # OverflowError) =>
    mc_out[1] % 16 =
      (CASE pp_in.mnemonic = "LDC" -> 4
         [] pp_in.mnemonic = "LDM" -> 14
         [] pp_in.mnemonic = "STM" -> 10
         [] pp_in.mnemonic = "BIN_OP" -> 5)

C8_Witness ==
  /\ pc = "ret_generate"
  /\ pp_in.mnemonic = "LDC"
  /\ pp_in.f.B = 129
  /\ ~Fits(pp_in)
  /\ mc_out # OverflowError
  /\ mc_out[1] % 16 = 4

C10_AnyGap ==
  pc = "ret_parse" =>
    IF op_in.trail = <<>> THEN Accepted ELSE pl_out.tag = "SyntaxError"

(***************************************************************************)
(* C10, amended.  Whitespace is insignificant directly before and after    *)
(* '=' and directly after ',': put there, in any amount, it leaves the     *)
(* text accepted with the same field values.  Whitespace between any other *)
(* two operand tokens, and any token behind the text, makes parse_line     *)
(* raise the syntax error.                                                 *)
(***************************************************************************)
C10_TolerantGaps ==
  pc = "ret_parse" =>
    IF /\ op_in.trail = <<>>
       /\ \A a \in DOMAIN op_in.gaps : Tolerant(op_in.m, op_in.gaps[a])
    THEN Accepted
    ELSE pl_out.tag = "SyntaxError"

C10_Witness ==
  /\ pc = "ret_parse"
  /\ op_in.m = "BIN_OP"
  /\ op_in.gaps = <<5, 10>>
  /\ op_in.trail = <<>>
  /\ Accepted

====
